---- MODULE Spec2Model ----
(***************************************************************************)
(* Model of nnabla's parameter registry (python/src/nnabla/parameter.py):  *)
(* the scope tree of OrderedDicts, the process-wide current_scope, the     *)
(* parameter_scope context manager, the registry operations, the two file  *)
(* codecs, and two threads that enter and leave scopes without a lock.     *)
(*                                                                         *)
(* Python objects live in heaps indexed by their identity:                 *)
(*   scopes[i]     an OrderedDict: a sequence of entries in insertion order*)
(*   variables[i]  an nn.Variable: shape, need_grad and its data array     *)
(*   arrays[i]     the flat row-major content of an array                  *)
(* A cell of a heap whose object was freed holds a mark, and the next      *)
(* object constructed takes the lowest freed cell.                         *)
(* Python strings are sequences of one-character strings, so that          *)
(* str.split('/') and '/'.join are computed and not assumed.               *)
(***************************************************************************)
EXTENDS Naturals, Sequences, FiniteSets

VARIABLES
    scopes,         \* heap of OrderedDict objects
    variables,      \* heap of nn.Variable objects
    arrays,         \* heap of data arrays
    current_scope,  \* the module global current_scope (an identity in scopes)
    stack,          \* prev_scope of every suspended parameter_scope generator of the caller
    files,          \* the file system: path -> file
    last,           \* the call that just ended, until the caller goes on: arguments, outcome
    hist,           \* history: creation need_grad of variables, round-trip progress
    threads         \* the locals of the parameter_scope generators of concurrent threads

vars == <<scopes, variables, arrays, current_scope, stack, files, last, hist, threads>>

(***************************************************************************)
(* Bounds of the model.                                                    *)
(***************************************************************************)
MaxScopes == 3      \* OrderedDict objects alive at a time (the root included)
MaxVariables == 2   \* nn.Variable objects alive at a time
MaxStack == 1       \* nesting depth of the caller's with-blocks
MaxDepth == 2       \* segments of a key passed to the registry

(***************************************************************************)
(* Strings.                                                                *)
(***************************************************************************)
Sep == "/"

\* The local names the caller uses: '' and 'a' (no '/' in a name).
Names == {<< >>, <<"a">>}

\* str.split('/')
RECURSIVE Split(_)
Split(s) ==
    IF \A i \in 1..Len(s) : s[i] # Sep
    THEN <<s>>
    ELSE LET i == CHOOSE j \in 1..Len(s) :
                      s[j] = Sep /\ \A h \in 1..(j - 1) : s[h] # Sep
         IN  <<SubSeq(s, 1, i - 1)>> \o Split(SubSeq(s, i + 1, Len(s)))

\* '/'.join(list)
RECURSIVE Join(_)
Join(l) ==
    IF Len(l) = 0 THEN << >>
    ELSE IF Len(l) = 1 THEN l[1]
    ELSE l[1] \o <<Sep>> \o Join(Tail(l))

\* The keys the caller passes: '/'-joined names, at most MaxDepth segments.
RECURSIVE NameSeqs(_)
NameSeqs(n) ==
    IF n = 0 THEN {<< >>}
    ELSE LET shorter == NameSeqs(n - 1)
         IN  shorter \cup {Append(l, x) : l \in {q \in shorter : Len(q) = n - 1}, x \in Names}

Keys == {Join(l) : l \in {q \in NameSeqs(MaxDepth) : Len(q) >= 1}}

(***************************************************************************)
(* Shapes and arrays.                                                      *)
(***************************************************************************)
Shapes == {<<1>>, <<2>>}

RECURSIVE Prod(_)
Prod(shape) == IF Len(shape) = 0 THEN 1 ELSE Head(shape) * Prod(Tail(shape))

\* The content of a freshly constructed Variable, and of initializer(shape=...).
Zeros(shape) == [i \in 1..Prod(shape) |-> 0]
Ones(shape) == [i \in 1..Prod(shape) |-> 1]

\* The shape and initializer arguments the caller passes together.
Creations == {[shape |-> <<1>>, initializer |-> "None"],
              [shape |-> <<2>>, initializer |-> "ones"]}

(***************************************************************************)
(* OrderedDict.  An entry is a name with either a dict or a Variable.      *)
(***************************************************************************)
root_scope == 1

DictEntry(name, ref) == [name |-> name, isdict |-> TRUE, ref |-> ref]
VarEntry(name, ref) == [name |-> name, isdict |-> FALSE, ref |-> ref]

\* Position of key k in OrderedDict d, 0 when absent.
Find(d, k) ==
    IF \E i \in 1..Len(d) : d[i].name = k
    THEN CHOOSE i \in 1..Len(d) : d[i].name = k
    ELSE 0

\* A variant of DictSet that keeps the occupant of an existing key, as
\* d.setdefault(k, e) would.
DictSetDefault(d, k, e) ==
    IF Find(d, k) = 0 THEN Append(d, e) ELSE d

\* d[k] = e: an existing key keeps its position, a new key goes last.
DictSet(d, k, e) ==
    IF Find(d, k) = 0 THEN Append(d, e) ELSE [d EXCEPT ![Find(d, k)] = e]

\* The marks of freed cells.  No name is '/', no Variable has array 0 and no
\* array is empty, so no object equals a mark.
FreedDict == <<[name |-> <<Sep>>, isdict |-> FALSE, ref |-> 0]>>
FreedVariable == [shape |-> << >>, need_grad |-> FALSE, array |-> 0]
FreedArray == << >>

\* The identity of the next object constructed in a heap.
NewId(heap, freed) ==
    IF \E i \in 1..Len(heap) : heap[i] = freed
    THEN CHOOSE i \in 1..Len(heap) : heap[i] = freed /\ \A j \in 1..(i - 1) : heap[j] # freed
    ELSE Len(heap) + 1

Store(heap, i, obj) ==
    IF i <= Len(heap) THEN [heap EXCEPT ![i] = obj] ELSE Append(heap, obj)

\* The interpreter state an operation works on.
Mem == [scopes |-> scopes, variables |-> variables, arrays |-> arrays,
        current_scope |-> current_scope]

Cur(m) == m.scopes[m.current_scope]

Ok(m, ret) == [m |-> m, ret |-> ret, exc |-> FALSE]
Fail(m) == [m |-> m, ret |-> 0, exc |-> TRUE]

\* The element of a set of one element: The({F(x) : x \in {e}}) is F(e) with
\* e computed once.
The(S) == CHOOSE x \in S : TRUE

(***************************************************************************)
(* parameter_scope.__enter__: the generator up to its yield.               *)
(***************************************************************************)
\* A variant of ScopeEnter that does not store the new OrderedDict under its
\* name.
ScopeEnterUnstored(m, name) ==
    LET i == Find(Cur(m), name)
        fresh == NewId(m.scopes, FreedDict)
    IN  IF i = 0
        THEN Ok([m EXCEPT !.scopes = Store(@, fresh, << >>), !.current_scope = fresh], 0)
        ELSE IF ~Cur(m)[i].isdict
        THEN Fail(m)
        ELSE Ok([m EXCEPT !.current_scope = Cur(m)[i].ref], 0)

\* A variant of ScopeEnter without the assertion: a name that holds a
\* Variable is given a new OrderedDict.
ScopeEnterUnchecked(m, name) ==
    LET i == Find(Cur(m), name)
        fresh == NewId(m.scopes, FreedDict)
    IN  IF i = 0 \/ ~Cur(m)[i].isdict
        THEN Ok([m EXCEPT !.scopes = Store([@ EXCEPT ![m.current_scope] =
                                               DictSet(@, name, DictEntry(name, fresh))],
                                           fresh, << >>),
                          !.current_scope = fresh], 0)
        ELSE Ok([m EXCEPT !.current_scope = Cur(m)[i].ref], 0)

ScopeEnter(m, name) ==
    LET i == Find(Cur(m), name)
        fresh == NewId(m.scopes, FreedDict)
    IN  IF i = 0
        THEN \* tmp is the new OrderedDict(); it is stored and becomes current
             Ok([m EXCEPT !.scopes = Store([@ EXCEPT ![m.current_scope] =
                                                Append(@, DictEntry(name, fresh))],
                                           fresh, << >>),
                          !.current_scope = fresh], 0)
        ELSE IF ~Cur(m)[i].isdict
        THEN Fail(m)        \* assert isinstance(tmp, dict)
        ELSE Ok([m EXCEPT !.current_scope = Cur(m)[i].ref], 0)

\* A variant of ScopeExit that leaves current_scope where it is.
ScopeStay(m, prev_scope) == m

\* The generator after its yield, resumed by a normal exit of the with-block.
ScopeExit(m, prev_scope) == [m EXCEPT !.current_scope = prev_scope]

\* The exit of the with-block when an exception propagates through it: the
\* exception is thrown into the generator at its yield, which has no
\* try/finally, so the line after the yield does not run.
ScopeThrow(m, prev_scope) == m

\* with parameter_scope(name): return <body>, for a body result r computed
\* in the entered scope.
WithResult(m, r) ==
    IF r.exc THEN [r EXCEPT !.m = ScopeThrow(r.m, m.current_scope)]
    ELSE [r EXCEPT !.m = ScopeExit(r.m, m.current_scope)]

(***************************************************************************)
(* get_parameter, set_parameter                                            *)
(***************************************************************************)
RECURSIVE get_parameter(_, _)
get_parameter(m, key) ==
    LET names == Split(key) IN
    IF Len(names) > 1
    THEN The({IF e.exc THEN e
              ELSE WithResult(m, get_parameter(e.m, Join(Tail(names)))) :
              e \in {ScopeEnter(m, names[1])}})
    ELSE LET i == Find(Cur(m), key) IN
         IF i = 0 THEN Ok(m, 0)                     \* None
         ELSE IF Cur(m)[i].isdict THEN Fail(m)      \* assert isinstance(param, nn.Variable)
         ELSE Ok(m, Cur(m)[i].ref)

RECURSIVE set_parameter(_, _, _)
set_parameter(m, key, param) ==
    LET names == Split(key) IN
    IF Len(names) > 1
    THEN The({IF e.exc THEN e
              ELSE WithResult(m, set_parameter(e.m, Join(Tail(names)), param)) :
              e \in {ScopeEnter(m, names[1])}})
    ELSE Ok([m EXCEPT !.scopes[m.current_scope] =
                          DictSet(@, names[1], VarEntry(names[1], param))], 0)

(***************************************************************************)
(* nn.Variable                                                             *)
(***************************************************************************)
\* nn.Variable(shape, need_grad=need_grad): a new Variable with its own array.
NewVariable(m, shape, need_grad) ==
    [m EXCEPT !.variables = Store(@, NewId(@, FreedVariable),
                                  [shape |-> shape, need_grad |-> need_grad,
                                   array |-> NewId(m.arrays, FreedArray)]),
              !.arrays = Store(@, NewId(@, FreedArray), Zeros(shape))]

\* param.unlinked() followed by param.need_grad = need_grad: a new Variable
\* on the same array.
Unlinked(m, v, need_grad) ==
    [m EXCEPT !.variables = Store(@, NewId(@, FreedVariable),
                                  [shape |-> m.variables[v].shape,
                                   need_grad |-> need_grad,
                                   array |-> m.variables[v].array])]

\* var.d = data
SetData(m, v, data) == [m EXCEPT !.arrays[m.variables[v].array] = data]

\* var.need_grad = need_grad
SetNeedGrad(m, v, need_grad) == [m EXCEPT !.variables[v].need_grad = need_grad]

Data(m, v) == m.arrays[m.variables[v].array]

\* initializer(shape=param.shape)
Initialize(initializer, shape) == Ones(shape)

(***************************************************************************)
(* get_parameter_or_create                                                 *)
(***************************************************************************)
\* A variant of Existing that changes need_grad of the registered Variable
\* in place and returns it.
ExistingInPlace(m, param, shape, need_grad) ==
    IF m.variables[param].shape # shape
    THEN Fail(m)
    ELSE Ok(SetNeedGrad(m, param, need_grad), param)

\* A variant of Existing that returns an unlinked Variable in any case.
ExistingUnlinked(m, param, shape, need_grad) ==
    IF m.variables[param].shape # shape
    THEN Fail(m)
    ELSE Ok(Unlinked(m, param, need_grad), NewId(m.variables, FreedVariable))

\* A variant of Existing without the assertion on the shape.
ExistingUnchecked(m, param, shape, need_grad) ==
    IF need_grad # m.variables[param].need_grad
    THEN Ok(Unlinked(m, param, need_grad), NewId(m.variables, FreedVariable))
    ELSE Ok(m, param)

\* The branch taken when get_parameter found param: lines 115-119.
Existing(m, param, shape, need_grad) ==
    IF m.variables[param].shape # shape
    THEN Fail(m)            \* assert param.shape == tuple(shape)
    ELSE IF need_grad # m.variables[param].need_grad
    THEN Ok(Unlinked(m, param, need_grad), NewId(m.variables, FreedVariable))
    ELSE Ok(m, param)

\* The branch taken when get_parameter returned None: lines 106-113.
Create(m, name, shape, initializer, need_grad) ==
    The({IF s.exc THEN s ELSE Ok(s.m, NewId(m.variables, FreedVariable)) :
         s \in {set_parameter(IF initializer # "None"
                              THEN SetData(NewVariable(m, shape, need_grad),
                                           NewId(m.variables, FreedVariable),
                                           Initialize(initializer, shape))
                              ELSE NewVariable(m, shape, need_grad),
                              name, NewId(m.variables, FreedVariable))}})

RECURSIVE get_parameter_or_create(_, _, _, _, _)
get_parameter_or_create(m, name, shape, initializer, need_grad) ==
    LET names == Split(name) IN
    IF Len(names) > 1
    THEN The({IF e.exc THEN e
              ELSE WithResult(m, get_parameter_or_create(e.m, Join(Tail(names)), shape,
                                                         initializer, need_grad)) :
              e \in {ScopeEnter(m, names[1])}})
    ELSE The({IF g.exc THEN g
              ELSE IF g.ret = 0
              THEN Create(g.m, name, shape, initializer, need_grad)
              ELSE Existing(g.m, g.ret, shape, need_grad) :
              g \in {get_parameter(m, names[1])}})

(***************************************************************************)
(* get_parameters                                                          *)
(***************************************************************************)
\* '/'.join([path, k]) if path else k
PathKey(path, k) == IF path # << >> THEN Join(<<path, k>>) ELSE k

\* params[key] = v on the OrderedDict params, a sequence of <<key, Variable>>.
ParamsSet(params, key, v) ==
    IF \E i \in 1..Len(params) : params[i][1] = key
    THEN [params EXCEPT ![CHOOSE i \in 1..Len(params) : params[i][1] = key] = <<key, v>>]
    ELSE Append(params, <<key, v>>)

\* The loop over current_scope.iteritems() from its i-th item on.  The result
\* is the interpreter state with the params built so far in ret.
RECURSIVE get_parameters_from(_, _, _, _, _)
get_parameters_from(m, params, path, grad_only, i) ==
    IF i > Len(Cur(m)) THEN [m |-> m, ret |-> params, exc |-> FALSE]
    ELSE LET k == Cur(m)[i].name
             v == Cur(m)[i].ref
         IN  IF Cur(m)[i].isdict
             THEN The({IF r.exc THEN r
                       ELSE get_parameters_from(r.m, r.ret, path, grad_only, i + 1) :
                       r \in {IF e.exc THEN e
                              ELSE WithResult(m, get_parameters_from(
                                       e.m, params, PathKey(path, k), grad_only, 1)) :
                              e \in {ScopeEnter(m, k)}}})
             ELSE IF ~grad_only \/ m.variables[v].need_grad
             THEN get_parameters_from(m, ParamsSet(params, PathKey(path, k), v),
                                      path, grad_only, i + 1)
             ELSE get_parameters_from(m, params, path, grad_only, i + 1)

get_parameters(m, grad_only) == get_parameters_from(m, << >>, << >>, grad_only, 1)

(***************************************************************************)
(* clear_parameters                                                        *)
(***************************************************************************)
\* A variant of clear_parameters that clears the root scope.
clear_root_scope(m) == [m EXCEPT !.scopes[root_scope] = << >>]

clear_parameters(m) == [m EXCEPT !.scopes[m.current_scope] = << >>]

(***************************************************************************)
(* Files.  An .h5 container holds a set of datasets (it keeps no order of  *)
(* its own), a .protobuf file the sequence of parameter records.           *)
(* A name in an .h5 container is a path of groups down to the dataset:     *)
(* its empty components do not count, and a dataset cannot be created      *)
(* without a name, where an object exists, or under a dataset.             *)
(***************************************************************************)
Paths == {"params.h5", "params.protobuf", "params.txt"}

\* os.path.splitext(path)[1]
Ext(path) ==
    CASE path = "params.h5" -> ".h5"
      [] path = "params.protobuf" -> ".protobuf"
      [] OTHER -> ".txt"

NoFile == [exists |-> FALSE, datasets |-> {}, parameter |-> << >>]

\* The components of a name in an .h5 container.
Components(key) ==
    LET NonEmpty(n) == n # << >> IN SelectSeq(Split(key), NonEmpty)

IsPrefix(p, q) == Len(p) <= Len(q) /\ SubSeq(q, 1, Len(p)) = p

\* hd[key] = ... cannot create the dataset in a container holding datasets.
H5Refuses(datasets, key) ==
    \/ Components(key) = << >>
    \/ \E d \in datasets : \/ IsPrefix(Components(d.name), Components(key))
                            \/ IsPrefix(Components(key), Components(d.name))

\* hd[k] = v.d with the attributes need_grad and index, for the i-th item.
Dataset(m, params, i) ==
    [name |-> Join(Components(params[i][1])),
     shape |-> m.variables[params[i][2]].shape,
     data |-> Data(m, params[i][2]),
     need_grad |-> m.variables[params[i][2]].need_grad,
     index |-> i - 1]

\* proto.parameter.add() filled from the i-th item.
ProtoParameter(m, params, i) ==
    [variable_name |-> params[i][1],
     shape |-> m.variables[params[i][2]].shape,
     data |-> Data(m, params[i][2]),
     need_grad |-> m.variables[params[i][2]].need_grad]

\* A variant of Write that writes the records whatever the extension is.
WriteAny(g, fs, path) ==
    [m |-> g.m, exc |-> FALSE,
     fs |-> [fs EXCEPT ![path] =
                [exists |-> TRUE,
                 datasets |-> {},
                 parameter |-> [i \in 1..Len(g.ret) |-> ProtoParameter(g.m, g.ret, i)]]]]

\* The loop of lines 218-222 from the i-th item on, over the datasets
\* written so far.  The with statement closes the file on an exception too.
RECURSIVE WriteH5(_, _, _, _, _)
WriteH5(g, datasets, i, fs, path) ==
    IF i > Len(g.ret) \/ H5Refuses(datasets, g.ret[i][1])
    THEN [m |-> g.m, exc |-> i <= Len(g.ret),
          fs |-> [fs EXCEPT ![path] = [exists |-> TRUE, datasets |-> datasets,
                                       parameter |-> << >>]]]
    ELSE WriteH5(g, datasets \cup {Dataset(g.m, g.ret, i)}, i + 1, fs, path)

\* Lines 214-236 for the result g of get_parameters: the result is the
\* interpreter state, the file system and whether the call raised.
Write(g, fs, path) ==
    IF Ext(path) = ".h5"
    THEN WriteH5(g, {}, 1, fs, path)
    ELSE IF Ext(path) = ".protobuf"
    THEN [m |-> g.m, exc |-> FALSE,
          fs |-> [fs EXCEPT ![path] =
                     [exists |-> TRUE,
                      datasets |-> {},
                      parameter |-> [i \in 1..Len(g.ret) |->
                                        ProtoParameter(g.m, g.ret, i)]]]]
    ELSE [m |-> g.m, exc |-> TRUE, fs |-> fs]      \* logger.critical(...); assert False

save_parameters(m, fs, path) == Write(get_parameters(m, FALSE), fs, path)

\* sorted(keys): the datasets in ascending order of their index attribute.
RECURSIVE SortedByIndex(_)
SortedByIndex(ds) ==
    IF ds = {} THEN << >>
    ELSE LET first == CHOOSE d \in ds : \A o \in ds : d.index <= o.index
         IN  <<first>> \o SortedByIndex(ds \ {first})

\* One iteration of the .h5 loop, lines 182-185.
LoadDataset(m, ds) ==
    The({IF r.exc THEN r ELSE Ok(SetData(r.m, r.ret, ds.data), r.ret) :
         r \in {get_parameter_or_create(m, ds.name, ds.shape, "None", ds.need_grad)}})

\* numpy.reshape(parameter.data, parameter.shape.dim): the array of the
\* shape dim with the flat data as its row-major content.
Reshape(data, dim) == [i \in 1..Prod(dim) |-> data[i]]

\* One iteration of the .protobuf loop, lines 195-199.
LoadProtoParameter(m, parameter) ==
    The({IF r.exc THEN r
         ELSE Ok(SetNeedGrad(SetData(r.m, r.ret, Reshape(parameter.data, parameter.shape)),
                             r.ret, parameter.need_grad), r.ret) :
         r \in {get_parameter_or_create(m, parameter.variable_name, parameter.shape,
                                        "None", TRUE)}})

\* The loop over the records, stopped by the first exception.
RECURSIVE LoadAll(_, _, _)
LoadAll(m, records, ext) ==
    IF records = << >> THEN Ok(m, 0)
    ELSE The({IF r.exc THEN r ELSE LoadAll(r.m, Tail(records), ext) :
              r \in {IF ext = ".h5" THEN LoadDataset(m, Head(records))
                     ELSE LoadProtoParameter(m, Head(records))}})

\* A variant of load_parameters that applies all the records or none.
load_all_or_nothing(m, fs, path) ==
    IF Ext(path) \notin {".h5", ".protobuf"} THEN Ok(m, 0)
    ELSE IF ~fs[path].exists THEN Fail(m)
    ELSE The({IF r.exc THEN Fail(m) ELSE r :
              r \in {LoadAll(m, IF Ext(path) = ".h5" THEN SortedByIndex(fs[path].datasets)
                                ELSE fs[path].parameter, Ext(path))}})

load_parameters(m, fs, path) ==
    IF Ext(path) = ".h5"
    THEN IF ~fs[path].exists THEN Fail(m)      \* h5py.File(path, 'r') raises IOError
         ELSE LoadAll(m, SortedByIndex(fs[path].datasets), ".h5")
    ELSE IF Ext(path) = ".protobuf"
    THEN IF ~fs[path].exists THEN Fail(m)      \* open(path, 'rb') raises IOError
         ELSE LoadAll(m, fs[path].parameter, ".protobuf")
    ELSE Ok(m, 0)

(***************************************************************************)
(* Reference counting.  An object that no reference reaches is freed.  The *)
(* references are the module globals, the prev_scope of the suspended      *)
(* generators, and the Variable the call that just ended passed or         *)
(* returned, which the caller holds until it goes on.                      *)
(***************************************************************************)
\* The dicts reachable from the dicts S through dict entries.
RECURSIVE Reach(_, _)
Reach(sc, S) ==
    LET T == S \cup UNION {{sc[n][i].ref : i \in {j \in 1..Len(sc[n]) : sc[n][j].isdict}} :
                           n \in S}
    IN  IF T = S THEN S ELSE Reach(sc, T)

\* The Variables registered in the dicts S.
Registered(sc, S) ==
    UNION {{sc[n][i].ref : i \in {j \in 1..Len(sc[n]) : ~sc[n][j].isdict}} : n \in S}

\* A heap without its freed cells at the end.
RECURSIVE Trim(_, _)
Trim(heap, freed) ==
    IF heap # << >> /\ heap[Len(heap)] = freed
    THEN Trim(SubSeq(heap, 1, Len(heap) - 1), freed)
    ELSE heap

\* The heaps of m with every cell but those of the live dicts and the live
\* Variables freed.
Free(m, liveS, liveV) ==
    [scopes |-> Trim([n \in 1..Len(m.scopes) |->
                         IF n \in liveS THEN m.scopes[n] ELSE FreedDict], FreedDict),
     variables |-> Trim([v \in 1..Len(m.variables) |->
                            IF v \in liveV THEN m.variables[v] ELSE FreedVariable],
                        FreedVariable),
     arrays |-> Trim([a \in 1..Len(m.arrays) |->
                         IF a \in {m.variables[v].array : v \in liveV}
                         THEN m.arrays[a] ELSE FreedArray], FreedArray),
     current_scope |-> m.current_scope]

Sweep(m, liveS, held) == Free(m, liveS, Registered(m.scopes, liveS) \cup (held \ {0}))

Collect(m, stk, held) ==
    Sweep(m, Reach(m.scopes, {root_scope, m.current_scope} \cup {stk[i] : i \in 1..Len(stk)}),
          held)

(***************************************************************************)
(* The state machine: one caller thread making calls one after another.    *)
(* A call is one step.  A call that raises is one step with the            *)
(* propagation of its exception: the exception leaves k of the caller's    *)
(* with-blocks, innermost first, and an except clause of the caller        *)
(* handles it there.  After a call the caller looks at the outcome (last)  *)
(* and goes on.                                                            *)
(***************************************************************************)
RECURSIVE Unwind(_, _, _)
Unwind(m, stk, k) ==
    IF k = 0 THEN [m |-> m, stack |-> stk]
    ELSE Unwind(ScopeThrow(m, stk[Len(stk)]), SubSeq(stk, 1, Len(stk) - 1), k - 1)

\* What get_parameters returned, by value: path, shape, data and need_grad.
Describe(m, params) ==
    [i \in 1..Len(params) |->
        [path |-> params[i][1],
         shape |-> m.variables[params[i][2]].shape,
         data |-> Data(m, params[i][2]),
         need_grad |-> m.variables[params[i][2]].need_grad]]

NoTrip == [stage |-> 0, path |-> "", scope |-> 0, before |-> << >>]
NotMade == [by_create |-> FALSE, need_grad |-> FALSE]

\* The interpreter state before any call.
NoMem == [scopes |-> << >>, variables |-> << >>, arrays |-> << >>, current_scope |-> 0]

\* No call has just ended.
Idle == [op |-> "", key |-> << >>, shape |-> << >>, need_grad |-> FALSE,
         param |-> 0, file |-> "", ret |-> 0, params |-> << >>, exc |-> FALSE,
         before |-> NoMem, stack |-> << >>, files |-> << >>]

\* The record of a step: what it was, and the interpreter state, the
\* suspended generators and the files it started from.
Plain(op, raised) ==
    [Idle EXCEPT !.op = op, !.exc = raised, !.before = Mem, !.stack = stack,
                 !.files = [p \in Paths |-> files[p]]]

\* The record of a call: its arguments, what it returned and whether it raised.
Call(op, key, shape, need_grad, param, r) ==
    [Plain(op, r.exc) EXCEPT !.key = key, !.shape = shape, !.need_grad = need_grad,
                             !.param = param, !.ret = IF r.exc THEN 0 ELSE r.ret]

Fits(m) == Len(m.scopes) <= MaxScopes /\ Len(m.variables) <= MaxVariables

\* The history of the Variables alive after the step: whether
\* get_parameter_or_create made them (a new Variable has a new array, an
\* unlinked one has not), and the need_grad they were made with: the one the
\* caller asked for, or the one a load left on the Variable it made.
Made(creating, fixed, asked) ==
    [v \in 1..Len(variables') |->
        IF variables'[v] = FreedVariable THEN NotMade
        ELSE IF v <= Len(variables) /\ variables[v] # FreedVariable THEN hist.made[v]
        ELSE LET a == variables'[v].array
                 by_create == creating /\ (a > Len(arrays) \/ arrays[a] = FreedArray)
             IN  [by_create |-> by_create,
                  need_grad |-> IF by_create /\ fixed THEN asked
                                ELSE variables'[v].need_grad]]

\* The step ends in interpreter state m with the suspended generators stk.
Commit(m, stk, held) ==
    \E c \in {Collect(m, stk, held)} :
    /\ scopes' = c.scopes
    /\ variables' = c.variables
    /\ arrays' = c.arrays
    /\ current_scope' = c.current_scope
    /\ stack' = stk
    /\ UNCHANGED threads

\* The end of a call with result r whose exception, if any, leaves k with-blocks.
Return(r, k, held) ==
    /\ r.exc \/ k = 0
    /\ Fits(r.m)
    /\ \E u \in {Unwind(r.m, stack, k)} : Commit(u.m, u.stack, held)

\* The threads that use the registry next to the caller, and the locals of a
\* thread that has not called parameter_scope: pc is the line of the
\* generator the thread is to run next, saw the current_scope the thread
\* read in the body of its with-block, out the number of threads that had
\* left their with-block when this one had.
Threads == {1, 2}

Ready == [pc |-> "ready", name |-> << >>, prev_scope |-> 0, tmp |-> 0, saw |-> 0, out |-> 0]

Init ==
    /\ scopes = << << >> >>
    /\ variables = << >>
    /\ arrays = << >>
    /\ current_scope = root_scope
    /\ stack = << >>
    /\ files = [p \in Paths |-> NoFile]
    /\ last = Idle
    /\ hist = [made |-> << >>, trip |-> NoTrip]
    /\ threads = [t \in Threads |-> Ready]

\* with parameter_scope(name): up to the start of the body
Enter(name, k) ==
    /\ last = Idle
    /\ Len(stack) < MaxStack
    /\ \E e \in {ScopeEnter(Mem, name)} :
       /\ e.exc \/ k = 0
       /\ Fits(e.m)
       /\ IF e.exc
          THEN \E u \in {Unwind(e.m, stack, k)} : Commit(u.m, u.stack, {})
          ELSE Commit(e.m, Append(stack, current_scope), {})
       /\ last' = Call("parameter_scope", name, << >>, FALSE, 0, e)
    /\ hist' = [made |-> Made(FALSE, FALSE, FALSE), trip |-> NoTrip]
    /\ UNCHANGED files

\* the body of the innermost with-block ends normally
Exit ==
    /\ last = Idle
    /\ stack # << >>
    /\ Commit(ScopeExit(Mem, stack[Len(stack)]), SubSeq(stack, 1, Len(stack) - 1), {})
    /\ last' = Plain("exit", FALSE)
    /\ hist' = [made |-> Made(FALSE, FALSE, FALSE), trip |-> NoTrip]
    /\ UNCHANGED files

\* the caller's own code in the body of the innermost with-block raises
Raise(k) ==
    /\ last = Idle
    /\ \E u \in {Unwind(Mem, stack, k)} : Commit(u.m, u.stack, {})
    /\ last' = Plain("raise", TRUE)
    /\ hist' = [made |-> Made(FALSE, FALSE, FALSE), trip |-> NoTrip]
    /\ UNCHANGED files

\* the caller goes on and drops the Variable it held
Continue ==
    /\ last # Idle
    /\ Commit(Mem, stack, {})
    /\ last' = Idle
    /\ hist' = [hist EXCEPT !.made = Made(FALSE, FALSE, FALSE)]
    /\ UNCHANGED files

GetParameter(key, k) ==
    /\ last = Idle
    /\ \E r \in {get_parameter(Mem, key)} :
       /\ Return(r, k, {r.ret})
       /\ last' = Call("get_parameter", key, << >>, FALSE, 0, r)
    /\ hist' = [made |-> Made(FALSE, FALSE, FALSE), trip |-> NoTrip]
    /\ UNCHANGED files

\* set_parameter(key, nn.Variable(shape, need_grad=need_grad))
SetParameter(key, shape, need_grad, k) ==
    /\ last = Idle
    /\ \E r \in {set_parameter(NewVariable(Mem, shape, need_grad), key,
                                NewId(variables, FreedVariable))} :
       /\ Return(r, k, {NewId(variables, FreedVariable)})
       /\ last' = Call("set_parameter", key, << >>, FALSE,
                       NewId(variables, FreedVariable), r)
    /\ hist' = [made |-> Made(FALSE, FALSE, FALSE), trip |-> NoTrip]
    /\ UNCHANGED files

GetParameterOrCreate(name, shape, initializer, need_grad, k) ==
    /\ last = Idle
    /\ \E r \in {get_parameter_or_create(Mem, name, shape, initializer, need_grad)} :
       /\ Return(r, k, {r.ret})
       /\ last' = Call("get_parameter_or_create", name, shape, need_grad, 0, r)
    /\ hist' = [made |-> Made(TRUE, TRUE, need_grad), trip |-> NoTrip]
    /\ UNCHANGED files

GetParameters(grad_only) ==
    /\ last = Idle
    /\ \E r \in {get_parameters(Mem, grad_only)} :
       /\ Return(r, 0, {})
       /\ last' = [Plain("get_parameters", r.exc) EXCEPT !.need_grad = grad_only,
                                                         !.params = r.ret]
    /\ hist' = [made |-> Made(FALSE, FALSE, FALSE), trip |-> NoTrip]
    /\ UNCHANGED files

ClearParameters ==
    /\ last = Idle
    /\ Commit(clear_parameters(Mem), stack, {})
    /\ last' = Plain("clear_parameters", FALSE)
    /\ hist' = [made |-> Made(FALSE, FALSE, FALSE),
                trip |-> IF hist.trip.stage = 1 /\ hist.trip.scope = current_scope
                         THEN [hist.trip EXCEPT !.stage = 2] ELSE NoTrip]
    /\ UNCHANGED files

SaveParameters(path, k) ==
    /\ last = Idle
    /\ \E r \in {save_parameters(Mem, files, path)} :
       /\ Return(r, k, {})
       /\ files' = r.fs
       /\ last' = [Plain("save_parameters", r.exc) EXCEPT !.file = path]
       /\ hist' = [made |-> Made(FALSE, FALSE, FALSE),
                   trip |-> IF r.exc THEN NoTrip
                            ELSE [stage |-> 1, path |-> path, scope |-> current_scope,
                                  before |-> Describe(Mem, get_parameters(Mem, FALSE).ret)]]

LoadParameters(path, k) ==
    /\ last = Idle
    /\ \E r \in {load_parameters(Mem, files, path)} :
       /\ Return(r, k, {})
       /\ last' = [Plain("load_parameters", r.exc) EXCEPT !.file = path]
    /\ hist' = [made |-> Made(TRUE, FALSE, FALSE),
                trip |-> IF hist.trip.stage = 2 /\ hist.trip.path = path
                            /\ hist.trip.scope = current_scope
                         THEN [hist.trip EXCEPT !.stage = 3] ELSE NoTrip]
    /\ UNCHANGED files

\* The registry in use.  No file is written: the only save is the one the
\* module refuses.
Next ==
    \/ \E name \in Names, k \in 0..Len(stack) : Enter(name, k)
    \/ Exit
    \/ \E k \in 1..Len(stack) : Raise(k)
    \/ Continue
    \/ \E key \in Keys, k \in 0..Len(stack) : GetParameter(key, k)
    \/ \E key \in Keys, k \in 0..Len(stack) : SetParameter(key, <<2>>, TRUE, k)
    \/ \E name \in Keys, c \in Creations, need_grad \in BOOLEAN, k \in 0..Len(stack) :
           GetParameterOrCreate(name, c.shape, c.initializer, need_grad, k)
    \/ \E grad_only \in BOOLEAN : GetParameters(grad_only)
    \/ ClearParameters
    \/ \E k \in 0..Len(stack) : SaveParameters("params.txt", k)
    \/ \E path \in Paths, k \in 0..Len(stack) : LoadParameters(path, k)

Spec == Init /\ [][Next]_vars

\* A session that saves the registry once and loads it back: the caller
\* builds parameters of one shape under the names 'a' and 'a/a', inside and
\* outside of with-blocks, and writes one file.
KeysIO == {<<"a">>, <<"a", Sep, "a">>}

Formats == {"params.h5", "params.protobuf"}

NextIO ==
    \/ \E name \in Names, k \in 0..Len(stack) : Enter(name, k)
    \/ Exit
    \/ Continue
    \/ \E name \in KeysIO, need_grad \in BOOLEAN, k \in 0..Len(stack) :
           GetParameterOrCreate(name, <<2>>, "ones", need_grad, k)
    \/ ClearParameters
    \/ \E path \in Formats, k \in 0..Len(stack) :
           (\A p \in Paths : ~files[p].exists) /\ SaveParameters(path, k)
    \/ \E path \in Formats, k \in 0..Len(stack) : LoadParameters(path, k)

SpecIO == Init /\ [][NextIO]_vars

(***************************************************************************)
(* Two threads on the shared registry, without a lock.  Each runs one      *)
(* with parameter_scope(name): body.  The interpreter switches threads     *)
(* between the lines of the generator, so a step is one line of it; the    *)
(* names prev_scope and tmp are locals of each generator, current_scope is *)
(* the one module global.  The body reads current_scope once.              *)
(***************************************************************************)
\* The dicts the locals of the running generators refer to.
Held(th) ==
    UNION {IF th[t].pc \in {"ready", "done"} THEN {}
           ELSE {th[t].prev_scope, th[t].tmp} \ {0} : t \in Threads}

\* A line of thread code ends in interpreter state m with the locals th.
ThreadCommit(m, th) ==
    /\ Fits(m)
    /\ \E c \in {Sweep(m, Reach(m.scopes, {root_scope, m.current_scope} \cup Held(th)), {})} :
       /\ scopes' = c.scopes
       /\ variables' = c.variables
       /\ arrays' = c.arrays
       /\ current_scope' = c.current_scope
    /\ threads' = th
    /\ UNCHANGED <<stack, files, last, hist>>

\* prev_scope = current_scope
Line53(t, name) ==
    /\ threads[t].pc = "ready"
    /\ ThreadCommit(Mem, [threads EXCEPT ![t] = [@ EXCEPT !.pc = "54", !.name = name,
                                                           !.prev_scope = current_scope]])

\* tmp = current_scope.get(name, OrderedDict()); assert isinstance(tmp, dict)
Line54(t) ==
    /\ threads[t].pc = "54"
    /\ LET i == Find(Cur(Mem), threads[t].name)
           fresh == NewId(scopes, FreedDict)
       IN  IF i = 0
           THEN ThreadCommit([Mem EXCEPT !.scopes = Store(@, fresh, << >>)],
                             [threads EXCEPT ![t] = [@ EXCEPT !.pc = "56", !.tmp = fresh]])
           ELSE IF ~Cur(Mem)[i].isdict
           THEN ThreadCommit(Mem, [threads EXCEPT ![t] = [@ EXCEPT !.pc = "done"]])
           ELSE ThreadCommit(Mem, [threads EXCEPT ![t] = [@ EXCEPT !.pc = "56",
                                                                 !.tmp = Cur(Mem)[i].ref]])

\* current_scope[name] = tmp
Line56(t) ==
    /\ threads[t].pc = "56"
    /\ ThreadCommit([Mem EXCEPT !.scopes[current_scope] =
                            DictSet(@, threads[t].name,
                                    DictEntry(threads[t].name, threads[t].tmp))],
                    [threads EXCEPT ![t] = [@ EXCEPT !.pc = "57"]])

\* current_scope = tmp; yield
Line57(t) ==
    /\ threads[t].pc = "57"
    /\ ThreadCommit([Mem EXCEPT !.current_scope = threads[t].tmp],
                    [threads EXCEPT ![t] = [@ EXCEPT !.pc = "body"]])

\* the body of the with-block reads the global current_scope
Body(t) ==
    /\ threads[t].pc = "body"
    /\ ThreadCommit(Mem, [threads EXCEPT ![t] = [@ EXCEPT !.pc = "59",
                                                          !.saw = current_scope]])

\* current_scope = prev_scope
Line59(t) ==
    /\ threads[t].pc = "59"
    /\ ThreadCommit(ScopeExit(Mem, threads[t].prev_scope),
                    [threads EXCEPT ![t] =
                        [@ EXCEPT !.pc = "done",
                                  !.out = 1 + Cardinality({o \in Threads :
                                                              threads[o].out > 0})]])

NextThreads ==
    \/ \E t \in Threads, name \in Names : Line53(t, name)
    \/ \E t \in Threads : Line54(t)
    \/ \E t \in Threads : Line56(t)
    \/ \E t \in Threads : Line57(t)
    \/ \E t \in Threads : Body(t)
    \/ \E t \in Threads : Line59(t)

SpecThreads == Init /\ [][NextThreads]_vars

(***************************************************************************)
(* What the properties speak of.                                           *)
(***************************************************************************)
\* The call that just ended.
Did(op) == last.op = op

\* The dict a walk from dict n along the names segs ends in; 0 if a name on
\* the way is missing or holds a Variable.
RECURSIVE Walk(_, _, _)
Walk(m, n, segs) ==
    IF segs = << >> THEN n
    ELSE LET i == Find(m.scopes[n], Head(segs)) IN
         IF i = 0 \/ ~m.scopes[n][i].isdict THEN 0
         ELSE Walk(m, m.scopes[n][i].ref, Tail(segs))

Front(segs) == SubSeq(segs, 1, Len(segs) - 1)
Leaf(segs) == segs[Len(segs)]

\* The Variable registered at key relative to the current scope of m; 0 if
\* there is none.
ParameterAt(m, key) ==
    LET n == Walk(m, m.current_scope, Front(Split(key)))
        i == IF n = 0 THEN 0 ELSE Find(m.scopes[n], Leaf(Split(key)))
    IN  IF i = 0 \/ m.scopes[n][i].isdict THEN 0 ELSE m.scopes[n][i].ref

\* A name on the way to the leaf of key holds a Variable.
Blocked(m, key) ==
    \E j \in 1..(Len(Split(key)) - 1) :
        LET n == Walk(m, m.current_scope, SubSeq(Split(key), 1, j - 1))
            i == IF n = 0 THEN 0 ELSE Find(m.scopes[n], Split(key)[j])
        IN  i # 0 /\ ~m.scopes[n][i].isdict

\* The number of with-blocks the step left.
Left == Len(last.stack) - Len(stack)

(***************************************************************************)
(* C1.  Stack discipline of parameter_scope: whenever with-blocks are      *)
(* left, by their normal end or by an exception propagating out of them,   *)
(* current_scope is again what it was before the outermost of them was     *)
(* entered.                                                                *)
(***************************************************************************)
C1_StackDiscipline ==
    (last # Idle /\ Left > 0) => current_scope = last.stack[Len(stack) + 1]

(***************************************************************************)
(* C2.  As the claim has it: get_parameter_or_create of a key whose slot   *)
(* holds a Variable that get_parameter_or_create made, with the shape of   *)
(* the Variable and the need_grad it was made with, returns that very      *)
(* Variable and adds no entry.                                             *)
(***************************************************************************)
C2_Memoized ==
    (/\ Did("get_parameter_or_create")
     /\ ParameterAt(last.before, last.key) # 0
     /\ hist.made[ParameterAt(last.before, last.key)].by_create
     /\ hist.made[ParameterAt(last.before, last.key)].need_grad = last.need_grad
     /\ last.before.variables[ParameterAt(last.before, last.key)].shape = last.shape)
    => /\ ~last.exc
       /\ last.ret = ParameterAt(last.before, last.key)
       /\ scopes = last.before.scopes

(***************************************************************************)
(* C2, amended.  get_parameter_or_create of a key whose slot holds a       *)
(* Variable, with the shape of the Variable and the need_grad the Variable *)
(* has at the call, returns that very Variable, whether the key names the  *)
(* whole path or the rest of it from inside a scope, and adds no entry and *)
(* no Variable.                                                            *)
(***************************************************************************)
C2_Case ==
    /\ Did("get_parameter_or_create")
    /\ ParameterAt(last.before, last.key) # 0
    /\ last.before.variables[ParameterAt(last.before, last.key)].shape = last.shape
    /\ last.before.variables[ParameterAt(last.before, last.key)].need_grad = last.need_grad

C2_MemoizedWhileNeedGradStands ==
    C2_Case =>
        /\ ~last.exc
        /\ last.ret = ParameterAt(last.before, last.key)
        /\ scopes = last.before.scopes
        /\ variables = last.before.variables
        /\ arrays = last.before.arrays
        /\ current_scope = last.before.current_scope

\* The parameter made under a two-segment key is asked for by its last name
\* from inside the scope.
C2_Witness ==
    /\ C2_Case
    /\ hist.made[last.ret].by_create
    /\ Len(Split(last.key)) = 1
    /\ current_scope # root_scope
    /\ \E key \in KeysIO : Len(Split(key)) = 2 /\ ParameterAt([Mem EXCEPT !.current_scope = root_scope], key) = last.ret

(***************************************************************************)
(* C3.  get_parameter_or_create on a registered parameter with the same    *)
(* shape and another need_grad returns a new Variable on the same array    *)
(* with the need_grad asked for; the registered Variable is as it was and  *)
(* get_parameter of the same key still returns it.                         *)
(***************************************************************************)
C3_Case ==
    /\ Did("get_parameter_or_create")
    /\ ParameterAt(last.before, last.key) # 0
    /\ last.before.variables[ParameterAt(last.before, last.key)].shape = last.shape
    /\ last.before.variables[ParameterAt(last.before, last.key)].need_grad # last.need_grad

C3_UnlinkedAlias ==
    C3_Case =>
        LET orig == ParameterAt(last.before, last.key) IN
        /\ ~last.exc
        /\ last.ret # 0
        /\ last.ret # orig
        /\ last.ret > Len(last.before.variables)
               \/ last.before.variables[last.ret] = FreedVariable
        /\ variables[last.ret].array = last.before.variables[orig].array
        /\ variables[last.ret].shape = last.shape
        /\ variables[last.ret].need_grad = last.need_grad
        /\ variables[orig] = last.before.variables[orig]
        /\ arrays[variables[orig].array] = last.before.arrays[variables[orig].array]
        /\ ParameterAt(Mem, last.key) = orig
        /\ get_parameter(Mem, last.key).ret = orig

C3_Witness == C3_Case /\ ~last.exc /\ Len(Split(last.key)) > 1

(***************************************************************************)
(* C4.  get_parameter_or_create on a registered parameter with another     *)
(* shape raises, for a key of one segment or of several, and leaves the    *)
(* scope tree and the Variable as they were.                               *)
(***************************************************************************)
C4_Case ==
    /\ Did("get_parameter_or_create")
    /\ ParameterAt(last.before, last.key) # 0
    /\ last.before.variables[ParameterAt(last.before, last.key)].shape # last.shape

C4_ShapeMismatch ==
    C4_Case =>
        /\ last.exc
        /\ scopes = last.before.scopes
        /\ variables = last.before.variables
        /\ arrays = last.before.arrays

C4_Witness ==
    /\ C4_Case
    /\ last.exc
    /\ Len(Split(last.key)) > 1
    /\ ~last.before.variables[ParameterAt(last.before, last.key)].need_grad

(***************************************************************************)
(* C5.  Round trip: save_parameters(file), clear_parameters() and          *)
(* load_parameters(file) in one current scope, for either format: the load *)
(* returns, and get_parameters(grad_only=False) then has the paths, in the *)
(* same order, with the shape, data and need_grad it had before the save.  *)
(***************************************************************************)
C5_RoundTrip ==
    (Did("load_parameters") /\ hist.trip.stage = 3) =>
        /\ ~last.exc
        /\ Describe(Mem, get_parameters(Mem, FALSE).ret) = hist.trip.before

(***************************************************************************)
(* The depth-first walk of the tree under dict n from its i-th item on, in *)
(* the order of the items: the sequence of <<names, Variable>>, names      *)
(* being the names on the way from the dict the walk started at.           *)
(***************************************************************************)
RECURSIVE Visited(_, _, _, _)
Visited(m, n, names, i) ==
    IF i > Len(m.scopes[n]) THEN << >>
    ELSE LET e == m.scopes[n][i] IN
         (IF e.isdict THEN Visited(m, e.ref, Append(names, e.name), 1)
          ELSE << <<Append(names, e.name), e.ref>> >>)
         \o Visited(m, n, names, i + 1)

\* The Variables under the current scope of m that get_parameters(grad_only)
\* is to return, in the order of the walk.
Wanted(m, grad_only) ==
    LET Asked(p) == ~grad_only \/ m.variables[p[2]].need_grad
    IN  SelectSeq(Visited(m, m.current_scope, << >>, 1), Asked)

Range(s) == {s[i] : i \in 1..Len(s)}

(***************************************************************************)
(* C6.  get_parameters(grad_only) returns exactly the parameters under the *)
(* current scope (those with need_grad when grad_only), each keyed by the  *)
(* '/'-joined names on its way from the current scope.                     *)
(***************************************************************************)
C6_ExactlySubtree ==
    Did("get_parameters") =>
        Range(last.params) =
            {<<Join(p[1]), p[2]>> : p \in Range(Wanted(last.before, last.need_grad))}

(***************************************************************************)
(* C7.  get_parameters returns the Variables in the order of the           *)
(* depth-first walk that visits the items of every scope in the order of   *)
(* their insertion, and a second call on the unchanged tree returns the    *)
(* same sequence.                                                          *)
(***************************************************************************)
C7_TraversalOrder ==
    Did("get_parameters") =>
        /\ [i \in 1..Len(last.params) |-> last.params[i][2]] =
               [i \in 1..Len(Wanted(last.before, last.need_grad)) |->
                   Wanted(last.before, last.need_grad)[i][2]]
        /\ get_parameters(Mem, last.need_grad).ret = last.params

(***************************************************************************)
(* C8.  clear_parameters empties the current scope and nothing else:       *)
(* current_scope is as before, and every scope that is not under the       *)
(* current one is still there with every item it had, each Variable among  *)
(* them unchanged.                                                         *)
(***************************************************************************)
Under(m) == Reach(m.scopes, {m.current_scope}) \ {m.current_scope}

Outside(m) ==
    {n \in 1..Len(m.scopes) : m.scopes[n] # FreedDict /\ n # m.current_scope
                                 /\ n \notin Under(m)}

C8_ClearFrame ==
    Did("clear_parameters") =>
        /\ ~last.exc
        /\ current_scope = last.before.current_scope
        /\ scopes[current_scope] = << >>
        /\ \A n \in Outside(last.before) :
              /\ n <= Len(scopes)
              /\ scopes[n] = last.before.scopes[n]
              /\ \A v \in Registered(scopes, {n}) :
                    /\ variables[v] = last.before.variables[v]
                    /\ Data(Mem, v) = Data(last.before, v)

\* A scope with items is cleared while its sibling holds a parameter.
C8_Witness ==
    /\ Did("clear_parameters")
    /\ last.before.scopes[current_scope] # << >>
    /\ current_scope # root_scope
    /\ \E i \in 1..Len(scopes[root_scope]) : scopes[root_scope][i].ref = current_scope
                                               /\ scopes[root_scope][i].isdict
    /\ \E n \in Outside(last.before) : n # root_scope /\ Registered(scopes, {n}) # {}

(***************************************************************************)
(* C9.  save_parameters with an extension that is neither .h5 nor          *)
(* .protobuf raises, writes no file and leaves the scope tree and          *)
(* current_scope as they were.                                             *)
(***************************************************************************)
C9_Case == Did("save_parameters") /\ Ext(last.file) \notin {".h5", ".protobuf"}

C9_UnsupportedFormat ==
    C9_Case =>
        /\ last.exc
        /\ \A p \in Paths : files[p] = last.files[p]
        /\ scopes = last.before.scopes
        /\ variables = last.before.variables
        /\ current_scope = last.before.current_scope

\* The call that raises is made in a sub-scope over a tree with parameters.
C9_Witness ==
    /\ C9_Case
    /\ last.exc
    /\ current_scope # root_scope
    /\ get_parameters(Mem, FALSE).ret # << >>

(***************************************************************************)
(* C10.  set_parameter(key, v), when no name on the way to the leaf holds  *)
(* a Variable: the call returns, get_parameter(key) from the same scope    *)
(* then returns v whatever the slot held before, the scopes on the way     *)
(* exist, and every other item of the tree is as it was.                   *)
(***************************************************************************)
C10_Case == Did("set_parameter") /\ ~Blocked(last.before, last.key)

\* What the leaf slot of the key held before the call: "none", "variable"
\* or "scope".
Occupant(m, key) ==
    LET n == Walk(m, m.current_scope, Front(Split(key)))
        i == IF n = 0 THEN 0 ELSE Find(m.scopes[n], Leaf(Split(key)))
    IN  IF i = 0 THEN "none" ELSE IF m.scopes[n][i].isdict THEN "scope" ELSE "variable"

\* The dicts under the leaf slot of the key, when it holds a scope.
Overwritten(m, key) ==
    LET n == Walk(m, m.current_scope, Front(Split(key)))
        i == Find(m.scopes[n], Leaf(Split(key)))
    IN  IF Occupant(m, key) = "scope" THEN Reach(m.scopes, {m.scopes[n][i].ref}) ELSE {}

C10_SetInstalls ==
    C10_Case =>
        LET slot == Walk(Mem, current_scope, Front(Split(last.key))) IN
        /\ ~last.exc
        /\ current_scope = last.before.current_scope
        /\ slot # 0
        /\ get_parameter(Mem, last.key).ret = last.param
        /\ ~get_parameter(Mem, last.key).exc
        /\ \A n \in 1..Len(last.before.scopes) :
              \/ last.before.scopes[n] = FreedDict
              \/ n \in Overwritten(last.before, last.key)
              \/ /\ n <= Len(scopes)
                 /\ Len(scopes[n]) >= Len(last.before.scopes[n])
                 /\ \A i \in 1..Len(last.before.scopes[n]) :
                       \/ scopes[n][i] = last.before.scopes[n][i]
                       \/ n = slot /\ last.before.scopes[n][i].name = Leaf(Split(last.key))
        /\ \A v \in 1..Len(last.before.variables) :
              (last.before.variables[v] # FreedVariable /\ v <= Len(variables)
                                                         /\ variables[v] # FreedVariable)
                  => /\ variables[v] = last.before.variables[v]
                     /\ Data(Mem, v) = Data(last.before, v)

\* A key of two names is set where the scope on the way is missing, in a
\* tree that holds a parameter already.
C10_Witness ==
    /\ C10_Case
    /\ Len(Split(last.key)) > 1
    /\ Walk(last.before, last.before.current_scope, Front(Split(last.key))) = 0
    /\ \E n \in 1..Len(last.before.scopes) :
          last.before.scopes[n] # FreedDict /\ Registered(last.before.scopes, {n}) # {}

(***************************************************************************)
(* C11.  load_parameters of a .protobuf file that returns: for every       *)
(* record whose variable_name held a parameter before the load, whatever   *)
(* need_grad that parameter had and whatever need_grad the record has,     *)
(* get_parameter(variable_name) then returns a Variable with the need_grad *)
(* and the data of the record.                                             *)
(***************************************************************************)
C11_LoadOverwritesNeedGrad ==
    (Did("load_parameters") /\ ~last.exc /\ Ext(last.file) = ".protobuf") =>
        \A i \in 1..Len(files[last.file].parameter) :
            LET rec == files[last.file].parameter[i] IN
            ParameterAt(last.before, rec.variable_name) # 0 =>
                /\ get_parameter(Mem, rec.variable_name).ret # 0
                /\ variables[get_parameter(Mem, rec.variable_name).ret].need_grad
                       = rec.need_grad
                /\ Data(Mem, get_parameter(Mem, rec.variable_name).ret) = rec.data

(***************************************************************************)
(* C12.  Without a lock the with-blocks of two threads corrupt each other: *)
(* when both threads have left their with-block, current_scope is the      *)
(* prev_scope of the thread that left last, which that thread read from    *)
(* the global whatever the other thread had made of it; and a thread alone *)
(* reads in its body the scope it entered.  The witness is the             *)
(* interleaving of the claim: a thread has read in its body a scope that   *)
(* is not the one it entered, and after both have left current_scope is    *)
(* not the scope that was current before either entered.                   *)
(***************************************************************************)
AllOut == \A t \in Threads : threads[t].out > 0

C12_UnsafeWithoutLock ==
    /\ AllOut => \E t \in Threads : /\ threads[t].out = Cardinality(Threads)
                                    /\ current_scope = threads[t].prev_scope
    /\ \A t \in Threads :
          (threads[t].saw # 0 /\ \A o \in Threads \ {t} : threads[o].pc = "ready")
              => threads[t].saw = threads[t].tmp

C12_Witness ==
    /\ AllOut
    /\ \E t \in Threads : threads[t].saw # threads[t].tmp
    /\ current_scope # root_scope

(***************************************************************************)
(* C13.  A registry operation that fails leaves current_scope where it     *)
(* was: when get_parameter, set_parameter or get_parameter_or_create of a  *)
(* key of several names raises and the caller handles the exception at the *)
(* call, current_scope is what it was before the call.                     *)
(***************************************************************************)
C13_FailureRestores ==
    (/\ last.op \in {"get_parameter", "set_parameter", "get_parameter_or_create"}
     /\ last.exc
     /\ Len(Split(last.key)) > 1
     /\ Left = 0)
    => current_scope = last.before.current_scope

(***************************************************************************)
(* C14.  Kind stability: over every step but clear_parameters, a name of a *)
(* scope that held a subscope before the step does not hold a parameter    *)
(* after it, and a name that held a parameter does not hold a subscope.    *)
(***************************************************************************)
C14_KindStable ==
    (last # Idle /\ ~Did("clear_parameters")) =>
        \A n \in 1..Len(last.before.scopes) :
            (last.before.scopes[n] # FreedDict /\ n <= Len(scopes) /\ scopes[n] # FreedDict)
                => \A i \in 1..Len(last.before.scopes[n]) :
                       LET j == Find(scopes[n], last.before.scopes[n][i].name) IN
                       j # 0 => scopes[n][j].isdict = last.before.scopes[n][i].isdict

(***************************************************************************)
(* C15.  Kind mismatch fails fast.  get_parameter and                      *)
(* get_parameter_or_create of a key whose leaf name holds a subscope, even *)
(* an empty one, raise; parameter_scope of a name that holds a parameter   *)
(* raises, and so does every registry call whose key passes through a name *)
(* that holds a parameter.  The failing step leaves every scope and every  *)
(* registered Variable as it was.                                          *)
(***************************************************************************)
C15_LeafIsScope ==
    /\ last.op \in {"get_parameter", "get_parameter_or_create"}
    /\ Occupant(last.before, last.key) = "scope"

C15_EntersParameter ==
    \/ Did("parameter_scope") /\ Occupant(last.before, last.key) = "variable"
    \/ /\ last.op \in {"get_parameter", "set_parameter", "get_parameter_or_create"}
       /\ Blocked(last.before, last.key)

C15_KindMismatchFails ==
    (C15_LeafIsScope \/ C15_EntersParameter) =>
        /\ last.exc
        /\ scopes = last.before.scopes
        /\ \A v \in 1..Len(last.before.variables) :
              last.before.variables[v] # FreedVariable =>
                  /\ v <= Len(variables)
                  /\ variables[v] = last.before.variables[v]
                  /\ Data(Mem, v) = Data(last.before, v)

\* get_parameter_or_create of a key of two names whose leaf holds an empty
\* subscope, in a tree that holds a parameter.
C15_Witness ==
    /\ C15_LeafIsScope
    /\ Did("get_parameter_or_create")
    /\ last.exc
    /\ Len(Split(last.key)) > 1
    /\ Overwritten(last.before, last.key) # {}
    /\ \A n \in Overwritten(last.before, last.key) : last.before.scopes[n] = << >>
    /\ \E v \in 1..Len(variables) : variables[v] # FreedVariable

(***************************************************************************)
(* C16.  Load has no rollback.  When load_parameters raises at a record,   *)
(* the k-th in the order of the load (the order of the stream for          *)
(* .protobuf, of the index attribute for .h5): every record before it is   *)
(* applied, its name holds a parameter with the shape and the data of the  *)
(* record; no record after it is applied, its name holds what it held      *)
(* before the load.  Names are taken from the scope the load was called in.*)
(***************************************************************************)
\* The records of the file the load just read, in the order of the load, as
\* <<name, shape, data>>.
C16_Records ==
    IF Ext(last.file) = ".h5"
    THEN [i \in 1..Cardinality(last.files[last.file].datasets) |->
             LET ds == SortedByIndex(last.files[last.file].datasets)[i]
             IN  <<ds.name, ds.shape, ds.data>>]
    ELSE [i \in 1..Len(last.files[last.file].parameter) |->
             LET rec == last.files[last.file].parameter[i]
             IN  <<rec.variable_name, rec.shape, rec.data>>]

\* The records of the file as the loop takes them.
C16_Loaded ==
    IF Ext(last.file) = ".h5" THEN SortedByIndex(last.files[last.file].datasets)
    ELSE last.files[last.file].parameter

\* The record the load failed at: the first whose application raises.
C16_Failing ==
    CHOOSE k \in 1..Len(C16_Loaded) :
        /\ LoadAll(last.before, SubSeq(C16_Loaded, 1, k), Ext(last.file)).exc
        /\ ~LoadAll(last.before, SubSeq(C16_Loaded, 1, k - 1), Ext(last.file)).exc

\* The interpreter state seen from the scope the load was called in.
C16_Here == [Mem EXCEPT !.current_scope = last.before.current_scope]

C16_Case ==
    /\ Did("load_parameters")
    /\ last.exc
    /\ Ext(last.file) \in {".h5", ".protobuf"}
    /\ last.files[last.file].exists

C17_PureLookup ==
    (Did("get_parameter") /\ ~last.exc) => scopes = last.before.scopes

(***************************************************************************)
(* C18.  With one thread and properly nested with-blocks, current_scope is *)
(* always the root scope or a scope reached from the root through subscope *)
(* entries: no sequence of scope entries and exits, registry calls,        *)
(* clear_parameters and failed operations leaves it on a detached scope.   *)
(***************************************************************************)
C18_CurrentAttached == current_scope \in Reach(scopes, {root_scope})

\* clear_parameters drops subscopes of a scope that is not the root and that
\* is current, outside of any with-block, since an exception left it so.
C18_Witness ==
    /\ Did("clear_parameters")
    /\ current_scope # root_scope
    /\ stack = << >>
    /\ Under(last.before) # {}

(***************************************************************************)
(* C19.  Enumeration and lookup agree, empty names included: every pair    *)
(* <<p, v>> that get_parameters(grad_only=False) returns has               *)
(* get_parameter(p) = v from the same current scope, every Variable        *)
(* registered under the current scope is returned under the '/'-joined     *)
(* names on its way, and the result has one pair for every registered      *)
(* parameter.                                                              *)
(***************************************************************************)
C19_EnumerationAgrees ==
    (Did("get_parameters") /\ ~last.need_grad /\ ~last.exc) =>
        /\ \A i \in 1..Len(last.params) :
              /\ ~get_parameter(last.before, last.params[i][1]).exc
              /\ get_parameter(last.before, last.params[i][1]).ret = last.params[i][2]
        /\ \A p \in Range(Wanted(last.before, FALSE)) :
              <<Join(p[1]), p[2]>> \in Range(last.params)
        /\ Len(last.params) = Len(Wanted(last.before, FALSE))

====
